---- MODULE Spec2Model ----
(***************************************************************************)
(* A model of rss_bot.py: a single-threaded poller that fetches a feed,    *)
(* compares the first entry's identifier with a flat history file, writes  *)
(* a report file named after the wall clock, emails it and appends the     *)
(* identifier to the history file.                                         *)
(*                                                                         *)
(* Text is modelled as sequences of one-character strings, so that         *)
(* str.strip(), str.split(',') and the line iteration of a text file are   *)
(* computed as Python computes them.  Time is the wall clock in whole      *)
(* seconds (the granularity of the report name).                           *)
(*                                                                         *)
(* Faults of the environment that are modelled: an empty or unreachable    *)
(* feed, open() of the report file failing, the SMTP session failing or    *)
(* blocking, the feed fetch blocking.  Reading and appending the history   *)
(* file are taken to succeed, and a report write fails as a whole (no      *)
(* truncated file is left behind).                                         *)
(***************************************************************************)
EXTENDS Integers, Sequences, FiniteSets, TLC

VARIABLES
    env,        \* the process environment: EMAIL_SENDER, EMAIL_PASSWORD, RECIPIENT_LIST
    procState,  \* "init" (module loaded, lines 1-25), "running", "crashed"
    now,        \* wall clock, whole seconds
    next_run,   \* the schedule library's next_run of the one registered job
    run_start,  \* the time at which the current process registered its job
    history,    \* sent_posts.txt on disk: [exists, data]
    reports,    \* report files on disk: [name (the second), run, seq (who wrote it)]
    run,        \* how many times the process has been started before this one
    seq,        \* how many ticks the current process has run (0: none yet)
    ticks,      \* ticks run over all processes (bounded by MaxTicks)
    last,       \* what the last tick saw and did (a record, see NoTick)
    appended,   \* identifiers ever passed to save_sent_post
    failed,     \* identifiers whose email delivery has failed
    skipped,    \* new posts seen behind the first entry in a tick that processed it
    doc,        \* the HTML tree given to extract_arrays_from_html
    extracted   \* its result: [done, lists]

vars == <<env, procState, now, next_run, run_start, history, reports, run, seq,
          ticks, last, appended, failed, skipped, doc, extracted>>

botVars == <<env, procState, now, next_run, run_start, history, reports, run, seq,
             ticks, last, appended, failed, skipped>>

(***************************************************************************)
(* Bounds                                                                  *)
(***************************************************************************)
MaxTicks == 2
MaxClockTicks == 3
MaxFeedLen == 2
MaxNodes == 5

(***************************************************************************)
(* Program constants                                                       *)
(***************************************************************************)
IntervalSeconds == 300

(***************************************************************************)
(* Text                                                                    *)
(***************************************************************************)
Whitespace == {" ", "\n"}

RECURSIVE LStrip(_)
LStrip(s) ==
    IF s = <<>> THEN <<>>
    ELSE IF Head(s) \in Whitespace THEN LStrip(Tail(s)) ELSE s

RECURSIVE RStrip(_)
RStrip(s) ==
    IF s = <<>> THEN <<>>
    ELSE IF s[Len(s)] \in Whitespace THEN RStrip(SubSeq(s, 1, Len(s) - 1)) ELSE s

\* str.strip()
Strip(s) == RStrip(LStrip(s))

\* s.split(sep): the pieces between separators, empty pieces included
RECURSIVE SplitAcc(_, _, _)
SplitAcc(s, sep, cur) ==
    IF s = <<>> THEN <<cur>>
    ELSE IF Head(s) = sep THEN <<cur>> \o SplitAcc(Tail(s), sep, <<>>)
    ELSE SplitAcc(Tail(s), sep, Append(cur, Head(s)))

Split(s, sep) == SplitAcc(s, sep, <<>>)

\* iterating a text file: one line per "\n", and a last unterminated line if any
FileLines(data) ==
    LET parts == Split(data, "\n")
    IN IF parts[Len(parts)] = <<>> THEN SubSeq(parts, 1, Len(parts) - 1) ELSE parts

Range(s) == {s[i] : i \in 1..Len(s)}

RECURSIVE SelectNonEmpty(_)
SelectNonEmpty(ss) ==
    IF ss = <<>> THEN <<>>
    ELSE IF Head(ss) = <<>> THEN SelectNonEmpty(Tail(ss))
    ELSE <<Head(ss)>> \o SelectNonEmpty(Tail(ss))

(***************************************************************************)
(* Configuration (lines 16-22)                                             *)
(***************************************************************************)
Unset == <<>>

SenderValues == {Unset, <<"s">>}
PasswordValues == {Unset, <<"p">>}
RecipientListValues == {Unset, <<" ", ",">>, <<" ", "x", ",", "y", " ", ",">>}

Environments ==
    [sender : SenderValues, password : PasswordValues, recipient_list : RecipientListValues]

\* RECIPIENTS = [email.strip() for email in recipients_raw.split(',') if email.strip()]
RECIPIENTS(e) ==
    LET parts == Split(e.recipient_list, ",")
    IN SelectNonEmpty([i \in 1..Len(parts) |-> Strip(parts[i])])

CredentialsSet(e) == e.sender # Unset /\ e.password # Unset

\* the environments with nothing missing
CompleteEnvironments == {e \in Environments : CredentialsSet(e) /\ RECIPIENTS(e) # <<>>}

(***************************************************************************)
(* History store (lines 27-37)                                             *)
(***************************************************************************)
NoFile == [exists |-> FALSE, data |-> <<>>]
EmptyFile == [exists |-> TRUE, data |-> <<>>]

\* set(line.strip() for line in f), or set() when the file does not exist
load_sent_posts(h) ==
    IF ~h.exists THEN {}
    ELSE LET lines == FileLines(h.data)
         IN {Strip(lines[i]) : i \in 1..Len(lines)}

\* open(HISTORY_FILE, "a").write(f"{post_id}\n")
save_sent_post(h, post_id) ==
    [exists |-> TRUE, data |-> h.data \o post_id \o <<"\n">>]

(***************************************************************************)
(* Feed (the value returned by feedparser.parse, line 103)                 *)
(***************************************************************************)
\* identifiers a feed can carry: plain ones, and one holding a line break
PostIds == {<<"a">>, <<"b">>, <<"a", "\n", "b">>}
Links == {<<"b">>}

\* an entry either carries an explicit id, or only its link
Entries ==
    {[has_id |-> TRUE, id |-> i, link |-> <<"a">>] : i \in PostIds}
        \cup {[has_id |-> FALSE, id |-> <<>>, link |-> l] : l \in Links}

RECURSIVE SeqsUpTo(_, _)
SeqsUpTo(S, n) ==
    IF n = 0 THEN {<<>>}
    ELSE LET shorter == SeqsUpTo(S, n - 1)
         IN shorter \cup {Append(q, x) : q \in {r \in shorter : Len(r) = n - 1}, x \in S}

Feeds == SeqsUpTo(Entries, MaxFeedLen)

\* feeds whose entries all carry a plain explicit id
PlainEntries == {e \in Entries : e.has_id /\ "\n" \notin Range(e.id)}
PlainFeeds == SeqsUpTo(PlainEntries, MaxFeedLen)

\* how long a blocking network call can take: no time to speak of (it ends
\* within the second), or a whole schedule interval
Stalls == {0, IntervalSeconds}
Prompt == {0}

\* how long the process stays down before it is started again
Downtimes == {0, 1}

(***************************************************************************)
(* job (lines 99-159) and send_email (lines 67-97)                         *)
(***************************************************************************)
\* a job() without the guard of line 106
no_entries_unchecked(feed) == FALSE

\* if not feed.entries
no_entries(feed) == Len(feed) = 0

\* a job() that takes the last entry of the feed
oldest_post(feed) == feed[Len(feed)]

\* feed.entries[0]
latest_post(feed) == feed[1]

\* latest_post.get('id', latest_post.link)
post_id_of(entry) == IF entry.has_id THEN entry.id ELSE entry.link

\* a lookup of the identifier as written, newline included
already_sent_as_written(post_id, sent_posts) == (post_id \o <<"\n">>) \in sent_posts

\* post_id in sent_posts
already_sent(post_id, sent_posts) == post_id \in sent_posts

\* f"post_update_{int(time.time())}.html": the name is the current second
report_name(t) == t

\* a send_email without the guard of line 69
no_recipients_unchecked(recipients) == FALSE

\* if not recipients: return
no_recipients(recipients) == recipients = <<>>

\* a send_email without the try/except of lines 73 and 96
send_email_uncaught(recipients, e, dSmtp, smtpOk) ==
    IF recipients = <<>>
    THEN [called |-> TRUE, attempted |-> FALSE, delivered |-> FALSE,
          raised |-> FALSE, took |-> 0]
    ELSE [called |-> TRUE, attempted |-> TRUE,
          delivered |-> smtpOk /\ CredentialsSet(e),
          raised |-> ~(smtpOk /\ CredentialsSet(e)), took |-> dSmtp]

\* send_email: called is always TRUE; attempted says the try block was
\* entered; every exception inside it is caught (line 96), so it never raises.
\* Delivery needs the SMTP session to succeed, which needs the credentials.
send_email(recipients, e, dSmtp, smtpOk) ==
    IF no_recipients(recipients)
    THEN [called |-> TRUE, attempted |-> FALSE, delivered |-> FALSE,
          raised |-> FALSE, took |-> 0]
    ELSE [called |-> TRUE, attempted |-> TRUE,
          delivered |-> smtpOk /\ CredentialsSet(e),
          raised |-> FALSE, took |-> dSmtp]

\* a tick that ends before the report is written
Quiet(o, raised, t, post_id) ==
    [outcome |-> o, raised |-> raised, finish |-> t, history |-> history,
     wrote |-> FALSE, name |-> 0, post_id |-> post_id,
     called |-> FALSE, attempted |-> FALSE, delivered |-> FALSE]

\* what an empty feed does: print and return (lines 106-108)
on_no_entries(t) == Quiet("empty", FALSE, t, <<>>)

\* what a known identifier does: print and return (lines 115-117)
on_already_sent(t, post_id) == Quiet("seen", FALSE, t, post_id)

\* a job() that catches the failure of open(filename, "w") and returns
on_write_error_caught(t, post_id) == Quiet("write_failed", FALSE, t, post_id)

\* open(filename, "w") raising: nothing catches it (lines 151-152)
on_write_error(t, post_id) == Quiet("write_failed", TRUE, t, post_id)

\* lines 151-159: the report is written, then the email, then the history
on_new_post(t, post_id, dSmtp, smtpOk) ==
    LET mail == send_email(RECIPIENTS(env), env, dSmtp, smtpOk)
    IN [outcome |-> "done", raised |-> mail.raised, finish |-> t + mail.took,
        history |-> IF mail.raised THEN history ELSE save_sent_post(history, post_id),
        wrote |-> TRUE, name |-> report_name(t), post_id |-> post_id,
        called |-> mail.called, attempted |-> mail.attempted,
        delivered |-> mail.delivered]

\* One run of job().  dFetch: how long feedparser.parse blocks; writeOk:
\* whether the report file can be written; dSmtp, smtpOk: how long the SMTP
\* session blocks and whether it succeeds.
job(feed, dFetch, writeOk, dSmtp, smtpOk) ==
    LET t == now + dFetch
        sent_posts == load_sent_posts(history)
    IN IF no_entries(feed) THEN on_no_entries(t)
       ELSE IF Len(feed) = 0 THEN Quiet("index_error", TRUE, t, <<>>)
       ELSE LET post_id == post_id_of(latest_post(feed))
            IN IF already_sent(post_id, sent_posts) THEN on_already_sent(t, post_id)
               ELSE IF ~writeOk THEN on_write_error(t, post_id)
               ELSE on_new_post(t, post_id, dSmtp, smtpOk)

(***************************************************************************)
(* Bookkeeping of a tick                                                   *)
(***************************************************************************)
NoTick ==
    [kind |-> "none", n |-> 0, empty |-> TRUE, head |-> <<>>, outcome |-> "none",
     id |-> <<>>, wrote |-> FALSE, clobbered |-> FALSE,
     victim |-> [run |-> 0, seq |-> 0],
     called |-> FALSE, attempted |-> FALSE, delivered |-> FALSE]

\* the identifier of the feed's first entry, read off the feed itself
HeadId(feed) ==
    IF feed = <<>> THEN <<>>
    ELSE IF feed[1].has_id THEN feed[1].id ELSE feed[1].link

\* identifiers of the entries behind the first that the history does not know
NewBehind(feed) ==
    {i \in {HeadId(<<feed[k]>>) : k \in 2..Len(feed)} :
        i \notin load_sent_posts(history) /\ i # HeadId(feed)}

Victims(name) == {r \in reports : r.name = name}

\* the state after a tick whose job() returned (or raised) R
Record(R, feed, kind) ==
    /\ now' = R.finish
    /\ history' = R.history
    /\ reports' = IF R.wrote
                  THEN {r \in reports : r.name # R.name}
                           \cup {[name |-> R.name, run |-> run, seq |-> seq]}
                  ELSE reports
    /\ procState' = IF R.raised THEN "crashed" ELSE "running"
    /\ seq' = seq + 1
    /\ ticks' = ticks + 1
    /\ last' = [kind |-> kind, n |-> Len(feed), empty |-> feed = <<>>,
                head |-> HeadId(feed),
                outcome |-> R.outcome, id |-> R.post_id,
                wrote |-> R.wrote,
                clobbered |-> R.wrote /\ Victims(R.name) # {},
                victim |-> IF R.wrote /\ Victims(R.name) # {}
                           THEN LET v == CHOOSE r \in Victims(R.name) : TRUE
                                IN [run |-> v.run, seq |-> v.seq]
                           ELSE [run |-> 0, seq |-> 0],
                called |-> R.called, attempted |-> R.attempted,
                delivered |-> R.delivered]
    /\ appended' = IF R.history # history THEN appended \cup {R.post_id} ELSE appended
    /\ failed' = IF R.attempted /\ ~R.delivered THEN failed \cup {R.post_id} ELSE failed
    /\ skipped' = IF R.outcome = "done" THEN skipped \cup NewBehind(feed) ELSE skipped
    /\ UNCHANGED <<env, run, doc, extracted>>

(***************************************************************************)
(* The process (lines 161-171)                                             *)
(***************************************************************************)
\* schedule.every(5).minutes.do(job): next_run is set when the job is registered
registered_next_run(t) == t + IntervalSeconds

\* a schedule that leaves the job due as soon as it has run
rescheduled_at_once(t) == t

\* Job.run: after job_func returns, next_run = now + interval
rescheduled_next_run(t) == t + IntervalSeconds

\* Job.should_run: datetime.now() >= next_run
should_run(t, due) == t >= due

\* The inputs of a tick that can matter: the report is written only when the
\* feed has an entry, the SMTP session is opened only after the report is written.
WriteOutcomes(feed) == IF feed = <<>> THEN {TRUE} ELSE BOOLEAN
SmtpStalls(writeOk, stalls) == IF writeOk THEN stalls ELSE {0}
SmtpOutcomes(writeOk) == IF writeOk THEN BOOLEAN ELSE {TRUE}

\* lines 163-166: register the job, then run it once immediately
Startup(feeds, stalls, limit) ==
    /\ procState = "init"
    /\ ticks < limit
    /\ \E feed \in feeds, dFetch \in stalls :
       \E writeOk \in WriteOutcomes(feed) :
       \E dSmtp \in SmtpStalls(writeOk, stalls), smtpOk \in SmtpOutcomes(writeOk) :
          /\ Record(job(feed, dFetch, writeOk, dSmtp, smtpOk), feed, "startup")
          /\ next_run' = registered_next_run(now)
          /\ run_start' = now

\* lines 169-170: schedule.run_pending() finds the job due and runs it
ScheduledTick(feeds, stalls, limit) ==
    /\ procState = "running"
    /\ should_run(now, next_run)
    /\ ticks < limit
    /\ \E feed \in feeds, dFetch \in stalls :
       \E writeOk \in WriteOutcomes(feed) :
       \E dSmtp \in SmtpStalls(writeOk, stalls), smtpOk \in SmtpOutcomes(writeOk) :
          LET R == job(feed, dFetch, writeOk, dSmtp, smtpOk)
          IN /\ Record(R, feed, "scheduled")
             /\ next_run' = IF R.raised THEN next_run ELSE rescheduled_next_run(R.finish)
             /\ UNCHANGED run_start

\* lines 169-171: run_pending() finds nothing due, sleep(1), again, until the
\* job is due (the iterations in between change nothing but the clock)
SleepLoop(limit) ==
    /\ procState = "running"
    /\ ~should_run(now, next_run)
    /\ ticks < limit
    /\ now' = next_run
    /\ UNCHANGED <<env, procState, next_run, run_start, history, reports, run, seq,
                   ticks, last, appended, failed, skipped, doc, extracted>>

\* the crashed process is started again (by hand, or by whatever supervises it):
\* the module is loaded afresh, the files on disk are what they were
Restart(limit) ==
    /\ procState = "crashed"
    /\ ticks < limit
    /\ \E down \in Downtimes : now' = now + down
    /\ procState' = "init"
    /\ run' = run + 1
    /\ seq' = 0
    /\ UNCHANGED <<env, next_run, run_start, history, reports, ticks, last,
                   appended, failed, skipped, doc, extracted>>

InitWith(envs) ==
    /\ env \in envs
    /\ procState = "init"
    /\ now = 0
    /\ next_run = 0
    /\ run_start = 0
    /\ history \in {NoFile, EmptyFile}
    /\ reports = {}
    /\ run = 0
    /\ seq = 0
    /\ ticks = 0
    /\ last = NoTick
    /\ appended = {}
    /\ failed = {}
    /\ skipped = {}
    /\ doc = <<>>
    /\ extracted = [done |-> FALSE, lists |-> <<>>]

(***************************************************************************)
(* Spec: what the bot does with the feed, the history and the mail, under  *)
(* every environment and every identifier, with network calls that end     *)
(* within the second.                                                      *)
(***************************************************************************)
Init == InitWith(Environments)

Next ==
    \/ Startup(Feeds, Prompt, MaxTicks)
    \/ ScheduledTick(Feeds, Prompt, MaxTicks)
    \/ SleepLoop(MaxTicks)
    \/ Restart(MaxTicks)

Spec == Init /\ [][Next]_vars

(***************************************************************************)
(* SpecClock: when the ticks run and how the reports are named, with       *)
(* network calls that can block for a whole interval, under a complete     *)
(* environment and plain identifiers.                                      *)
(***************************************************************************)
InitClock == InitWith(CompleteEnvironments)

NextClock ==
    \/ Startup(PlainFeeds, Stalls, MaxClockTicks)
    \/ ScheduledTick(PlainFeeds, Stalls, MaxClockTicks)
    \/ SleepLoop(MaxClockTicks)
    \/ Restart(MaxClockTicks)

SpecClock == InitClock /\ [][NextClock]_vars

(***************************************************************************)
(* extract_arrays_from_html (lines 39-65), the detected_lists part.        *)
(*                                                                         *)
(* The document tree BeautifulSoup returns is kept in document order: one  *)
(* record per node, [tag, depth, text], a node's descendants being the     *)
(* nodes that follow it with a greater depth.  This is the order in which  *)
(* find_all and get_text walk the tree (next_element, up to the last       *)
(* descendant).  The images part of the result reads img elements only and *)
(* is left out.                                                            *)
(***************************************************************************)
ElementTags == {"ul", "ol", "li"}
TextTag == "#text"
Texts == {<<"a">>, <<" ", "b">>, <<" ">>}

ElementNode(tag, depth) == [tag |-> tag, depth |-> depth, text |-> <<>>]
TextNode(text, depth) == [tag |-> TextTag, depth |-> depth, text |-> text]

\* the depths a node appended to d can have: a child of the last node if that
\* is an element, or a sibling of the last node or of one of its ancestors
NextDepths(d) ==
    IF d = <<>> THEN {0}
    ELSE IF d[Len(d)].tag = TextTag THEN 0..d[Len(d)].depth
    ELSE 0..(d[Len(d)].depth + 1)

\* the parser joins adjacent strings: no text node follows a text node directly
CanAppend(d, node) ==
    /\ node.depth \in NextDepths(d)
    /\ (d # <<>> /\ d[Len(d)].tag = TextTag /\ node.tag = TextTag)
           => node.depth < d[Len(d)].depth

\* the index of the last descendant of node i (i itself when it has none);
\* i = 0 is the soup, whose descendants are all the nodes
RECURSIVE LastDescendant(_, _, _)
LastDescendant(d, i, j) ==
    IF j + 1 <= Len(d) /\ (i = 0 \/ d[j + 1].depth > d[i].depth)
    THEN LastDescendant(d, i, j + 1)
    ELSE j

\* the descendants of node i among from..to whose tag is in tags, in document order
RECURSIVE Matching(_, _, _, _)
Matching(d, from, to, tags) ==
    IF from > to THEN <<>>
    ELSE (IF d[from].tag \in tags THEN <<from>> ELSE <<>>)
             \o Matching(d, from + 1, to, tags)

\* tag.find_all(names, recursive=False): the children with one of the names
RECURSIVE MatchingAtDepth(_, _, _, _, _)
MatchingAtDepth(d, from, to, tags, depth) ==
    IF from > to THEN <<>>
    ELSE (IF d[from].tag \in tags /\ d[from].depth = depth THEN <<from>> ELSE <<>>)
             \o MatchingAtDepth(d, from + 1, to, tags, depth)

find_all_children(d, i, tags) ==
    MatchingAtDepth(d, i + 1, LastDescendant(d, i, i), tags,
                    IF i = 0 THEN 0 ELSE d[i].depth + 1)

\* tag.find_all(names): every descendant with one of the names, at any depth
find_all(d, i, tags) == Matching(d, i + 1, LastDescendant(d, i, i), tags)

\* tag.get_text(strip=True): the stripped strings below the tag, the empty
\* ones dropped, joined with nothing between them
RECURSIVE JoinStripped(_, _)
JoinStripped(d, idx) ==
    IF idx = <<>> THEN <<>>
    ELSE Strip(d[Head(idx)].text) \o JoinStripped(d, Tail(idx))

get_text(d, i) == JoinStripped(d, find_all(d, i, {TextTag}))

\* clean_list = [li.get_text(strip=True) for li in list_tag.find_all('li')]
clean_list(d, i) ==
    LET lis == find_all(d, i, {"li"})
    IN [k \in 1..Len(lis) |-> get_text(d, lis[k])]

\* for list_tag in soup.find_all(['ul', 'ol']): if clean_list: append(clean_list)
RECURSIVE CollectLists(_, _)
CollectLists(d, list_tags) ==
    IF list_tags = <<>> THEN <<>>
    ELSE LET cl == clean_list(d, Head(list_tags))
         IN (IF cl # <<>> THEN <<cl>> ELSE <<>>) \o CollectLists(d, Tail(list_tags))

extract_arrays_from_html(d) == CollectLists(d, find_all(d, 0, {"ul", "ol"}))

\* the document grows by one node, in document order
AddNode ==
    /\ ~extracted.done
    /\ Len(doc) < MaxNodes
    /\ \E depth \in 0..MaxNodes :
          \/ \E tag \in ElementTags :
                /\ CanAppend(doc, ElementNode(tag, depth))
                /\ doc' = Append(doc, ElementNode(tag, depth))
          \/ \E text \in Texts :
                /\ CanAppend(doc, TextNode(text, depth))
                /\ doc' = Append(doc, TextNode(text, depth))
    /\ UNCHANGED <<botVars, extracted>>

\* line 124: extra_data = extract_arrays_from_html(content)
Extract ==
    /\ ~extracted.done
    /\ extracted' = [done |-> TRUE, lists |-> extract_arrays_from_html(doc)]
    /\ UNCHANGED <<botVars, doc>>

InitExtract == InitWith(CompleteEnvironments) /\ history = NoFile

NextExtract == AddNode \/ Extract

SpecExtract == InitExtract /\ [][NextExtract]_vars

(***************************************************************************)
(* Properties of the bot                                                   *)
(***************************************************************************)
\* this step is a tick: job() ran once
TickStep == ticks' = ticks + 1

ConfigMissing(e) == e.sender = Unset \/ e.password = Unset \/ RECIPIENTS(e) = <<>>

\* C1: a tick whose feed's first entry has an identifier that load_sent_posts()
\* already returns is a no-op: no report file is created, send_email is not
\* called and the history file is left unchanged.
C1_KnownPostIsNoOp ==
    [][(TickStep /\ ~last'.empty /\ last'.head \in load_sent_posts(history))
          => /\ reports' = reports
             /\ ~last'.wrote
             /\ ~last'.called
             /\ history' = history]_vars

C1_Witness ==
    /\ last.kind = "scheduled"
    /\ ~last.empty
    /\ last.outcome = "seen"
    /\ last.head \in load_sent_posts(history)

\* C2: once a tick has appended an identifier with save_sent_post, no later
\* tick whose newest entry carries that identifier writes a report or attempts
\* an email (the identifier saved is found again by load_sent_posts).
C2_SavedPostNeverNotifiedAgain ==
    [][(TickStep /\ ~last'.empty /\ last'.head \in appended)
          => (~last'.wrote /\ ~last'.attempted)]_vars

\* C3: when the delivery inside send_email fails, the failure is caught, the
\* tick still appends the identifier to the history file, and no later tick
\* whose newest entry is that post attempts an email again.
C3_FailedPostNeverRetried ==
    [][TickStep
          => /\ (last'.attempted /\ ~last'.delivered)
                   => /\ procState' = "running"
                      /\ history' = save_sent_post(history, last'.head)
             /\ (~last'.empty /\ last'.head \in failed) => ~last'.attempted]_vars

\* C4 as claimed: when writing the report fails, no email is sent, no history
\* entry is recorded, and the process is still there to run the next
\* scheduled tick, which processes the post again.
C4_WriteFailureRetriedNextTick ==
    [][(TickStep /\ last'.outcome = "write_failed")
          => /\ ~last'.called
             /\ history' = history
             /\ procState' = "running"]_vars

\* C4 as amended: when writing the report fails, no email is sent and no
\* history entry is recorded in that tick, but nothing catches the exception:
\* the process ends and runs no further tick; the identifier stays out of the
\* history, so it is the startup run of a process started again that
\* processes the post.
C4_WriteFailureEndsProcess ==
    /\ [][(TickStep /\ last'.outcome = "write_failed")
             => /\ ~last'.called
                /\ history' = history
                /\ reports' = reports
                /\ procState' = "crashed"]_vars
    /\ [][procState = "crashed" => ~TickStep]_vars
    /\ [](last.outcome = "write_failed" => last.head \notin load_sent_posts(history))

C4_Witness ==
    /\ last.outcome = "write_failed"
    /\ procState = "crashed"
    /\ ~last.empty

\* C5: a tick whose feed has no entries has no side effects: no report file,
\* send_email not called, history file unchanged, and the process keeps running.
C5_EmptyFeedIsNoOp ==
    [][(TickStep /\ last'.empty)
          => /\ reports' = reports
             /\ ~last'.wrote
             /\ ~last'.called
             /\ history' = history
             /\ procState' = "running"]_vars

C5_Witness ==
    /\ last.kind = "scheduled"
    /\ last.empty
    /\ last.n = 0
    /\ procState = "running"

\* C6 as claimed: after the first-ever tick, with an empty or missing history
\* file and a feed of one entry, under every configuration: exactly one report
\* file, exactly one email attempt, and the history holds exactly that
\* entry's identifier.
C6_FirstRunUnderEveryConfiguration ==
    (ticks = 1 /\ last.n = 1 /\ last.outcome # "write_failed")
        => /\ Cardinality(reports) = 1
           /\ last.attempted
           /\ load_sent_posts(history) = {last.head}

\* C6 as amended: after the first-ever tick, with an empty or missing history
\* file and a feed of one entry, if the report can be written: exactly one
\* report file is created, send_email is called once and attempts delivery
\* exactly when the parsed recipient list is not empty, and the history file
\* consists of that entry's identifier followed by a newline.
C6_FirstRun ==
    (ticks = 1 /\ last.n = 1 /\ last.outcome # "write_failed")
        => /\ Cardinality(reports) = 1
           /\ last.called
           /\ last.attempted <=> (RECIPIENTS(env) # <<>>)
           /\ history = [exists |-> TRUE, data |-> last.head \o <<"\n">>]

C6_Witness ==
    /\ ticks = 1
    /\ last.n = 1
    /\ last.outcome = "done"
    /\ RECIPIENTS(env) = <<>>
    /\ env.recipient_list # Unset

\* C7 as claimed: with any of the sender, the password or the recipient list
\* missing, the process never starts: no tick runs.
C7_MissingConfigNeverStarts ==
    ConfigMissing(env) => (ticks = 0 /\ procState = "init")

\* C7 as amended: a missing sender, password or recipient list does not stop
\* the process from starting: startup is possible under every environment.
\* With no recipients send_email returns without attempting delivery, while
\* the report and the history entry are still written; a delivery attempt
\* made without credentials fails inside send_email and does not stop the
\* process.
C7_MissingConfigStillRuns ==
    /\ (procState = "init" /\ ticks < MaxTicks)
           => ENABLED Startup(Feeds, Prompt, MaxTicks)
    /\ RECIPIENTS(env) = <<>>
           => /\ ~last.attempted
              /\ last.outcome = "done" => (last.wrote /\ last.head \in appended)
    /\ last.attempted
           => /\ procState = "running"
              /\ ~CredentialsSet(env) => ~last.delivered

C7_Witness ==
    /\ env.sender = Unset
    /\ env.password = Unset
    /\ RECIPIENTS(env) = <<>>
    /\ procState = "running"
    /\ last.outcome = "done"

\* C8 as claimed: a new post that was behind the first entry in a tick that
\* processed the first entry is never retried: no later tick produces a
\* report, an email or a history entry for it.
C8_SkippedPostNeverProcessed ==
    [][(TickStep /\ ~last'.empty /\ last'.head \in skipped)
          => /\ ~last'.wrote
             /\ ~last'.attempted
             /\ history' = history]_vars

\* C8 as amended: each tick considers only the first entry of the feed: the
\* report, the email and the history entry of a tick are those of its feed's
\* first entry and of no other; a new post behind the first entry is skipped
\* by that tick (nothing retries it), and is processed later only in a tick
\* in which it has become the feed's first entry.
C8_OnlyFirstEntryProcessed ==
    [][TickStep
          => /\ (last'.wrote \/ last'.called \/ history' # history)
                   => /\ ~last'.empty
                      /\ last'.id = last'.head
                      /\ last'.head \notin load_sent_posts(history)
             /\ history' # history => history' = save_sent_post(history, last'.head)
             /\ Cardinality(reports' \ reports) <= 1]_vars

C8_Witness ==
    /\ last.n = 1
    /\ last.head \in skipped
    /\ last.wrote
    /\ last.head \in appended

(***************************************************************************)
(* Properties of the schedule (SpecClock)                                  *)
(***************************************************************************)
\* C9 as claimed: no tick ever writes a report under the name of a report an
\* earlier tick wrote, ticks that block on the network included.
C9_NoReportOverwritten == ~last.clobbered

\* C9 as amended: among the ticks of one process run, the report of a
\* scheduled tick is never overwritten (the next run is set five minutes
\* after a scheduled tick returns); only the startup run's report can be, and
\* only by the first scheduled tick, when the startup run lasted the whole
\* interval or longer: the job is registered before the startup run, so the
\* first scheduled tick is then due at once and can write within the same
\* second.  A startup run overwrites nothing of its own process run.
C9_OnlyStartupReportOverwritten ==
    last.clobbered
        => IF last.kind = "startup"
           THEN last.victim.run < run
           ELSE /\ last.victim.run = run
                /\ last.victim.seq = 0
                /\ seq = 2
                /\ now >= run_start + IntervalSeconds

C9_Witness ==
    /\ last.kind = "scheduled"
    /\ seq = 3
    /\ last.wrote
    /\ ~last.clobbered
    /\ \E r \in reports : r.run = run /\ r.seq = 1 /\ r.name < now

(***************************************************************************)
(* Properties of the extractor (SpecExtract)                               *)
(***************************************************************************)
\* the parent of node j (0: the soup), from the depths
Parent(d, j) ==
    IF d[j].depth = 0 THEN 0
    ELSE CHOOSE i \in 1..(j - 1) :
             /\ d[i].depth = d[j].depth - 1
             /\ \A k \in (i + 1)..(j - 1) : d[k].depth >= d[j].depth

\* node i is a proper ancestor of node j
RECURSIVE IsAncestor(_, _, _)
IsAncestor(d, i, j) ==
    LET p == Parent(d, j)
    IN p # 0 /\ (p = i \/ IsAncestor(d, i, p))

\* the k-th smallest element of a set of numbers
Nth(S, k) == CHOOSE x \in S : Cardinality({y \in S : y < x}) = k - 1

ListNodes(d) == {i \in 1..Len(d) : d[i].tag \in {"ul", "ol"}}
ItemsBelow(d, i) == {j \in 1..Len(d) : d[j].tag = "li" /\ IsAncestor(d, i, j)}
ItemsDirectlyBelow(d, i) == {j \in 1..Len(d) : d[j].tag = "li" /\ Parent(d, j) = i}
StringsBelow(d, j) == {t \in 1..Len(d) : d[t].tag = TextTag /\ IsAncestor(d, j, t)}

\* the strings below node j, in document order, each stripped, joined
RECURSIVE JoinedStrippedFrom(_, _, _)
JoinedStrippedFrom(d, S, k) ==
    IF k > Cardinality(S) THEN <<>>
    ELSE Strip(d[Nth(S, k)].text) \o JoinedStrippedFrom(d, S, k + 1)

\* the strings below node j, in document order, joined as they are
RECURSIVE JoinedFrom(_, _, _)
JoinedFrom(d, S, k) ==
    IF k > Cardinality(S) THEN <<>>
    ELSE d[Nth(S, k)].text \o JoinedFrom(d, S, k + 1)

\* the trimmed text content of node j
TrimmedText(d, j) == Strip(JoinedFrom(d, StringsBelow(d, j), 1))

\* C10 as claimed: one group per ul/ol element in document order, each group
\* being exactly the trimmed texts of that list's direct li children, lists
\* nested inside list items included; a list with no items gives no group.
C10_GroupsOfDirectItems ==
    extracted.done
        => LET L == {i \in ListNodes(doc) : ItemsDirectlyBelow(doc, i) # {}}
           IN /\ Len(extracted.lists) = Cardinality(L)
              /\ \A k \in 1..Cardinality(L) :
                    LET items == ItemsDirectlyBelow(doc, Nth(L, k))
                        group == extracted.lists[k]
                    IN /\ Len(group) = Cardinality(items)
                       /\ \A m \in 1..Cardinality(items) :
                             group[m] = TrimmedText(doc, Nth(items, m))

\* C10 as amended: one group per ul/ol element that has an li element
\* anywhere below it, in document order; each group holds, in document order,
\* one item per li element at any depth below that list (the items of a
\* nested list are in the outer list's group and again in their own), an
\* item being the strings below the li, each stripped, joined with nothing
\* between them; a list with no li element below it gives no group.
C10_GroupsOfDescendantItems ==
    extracted.done
        => LET L == {i \in ListNodes(doc) : ItemsBelow(doc, i) # {}}
           IN /\ Len(extracted.lists) = Cardinality(L)
              /\ \A k \in 1..Cardinality(L) :
                    LET items == ItemsBelow(doc, Nth(L, k))
                        group == extracted.lists[k]
                    IN /\ Len(group) = Cardinality(items)
                       /\ \A m \in 1..Cardinality(items) :
                             group[m] = JoinedStrippedFrom(
                                            doc, StringsBelow(doc, Nth(items, m)), 1)

C10_Witness ==
    /\ extracted.done
    /\ Len(extracted.lists) = 2
    /\ Len(extracted.lists[1]) = 2
    /\ \E i, j \in ListNodes(doc) :
          /\ IsAncestor(doc, i, j)
          /\ ItemsBelow(doc, j) # {}
          /\ ItemsDirectlyBelow(doc, i) # ItemsBelow(doc, i)

====
